---- MODULE Spec2Model ----
(***************************************************************************)
(* byrec: an event log (EventStore) and the aggregation engine             *)
(* (EventAggregator) that folds its events into an aggregate store while   *)
(* tracking the folded ids in a list of processed ranges.                  *)
(*                                                                         *)
(* Storage is IndexedDB.  Every engine transaction has the same scope (all *)
(* object stores, readwrite), so IndexedDB runs them one after another in  *)
(* creation order: txq is that queue, and only its head makes progress.    *)
(***************************************************************************)
EXTENDS Integers, Sequences, FiniteSets, TLC

\* ------------------------------------------------------------------ bounds
MaxEvents == 3          \* appends per behaviour (localIds 1..MaxEvents)
GapEvents == 4          \* appends per behaviour of GapSpec
MaxInFlight == 2        \* engine operations in flight at once
BatchSize == 2          \* the batchSize constructor parameter
MaxRestarts == 1        \* process restarts per behaviour
DisposeEvents == 1      \* appends per behaviour of DisposeSpec
BatchEvents == 2        \* appends per behaviour of BatchSpec
MaxKeep == 1            \* cleanupOldData keeps 0..MaxKeep records
MaxLimit == 2           \* limits 0..MaxLimit of getEventsAfter and getEventsBefore
LogEvents == 2          \* completed appends per behaviour of LogSpec and AppendSpec
MaxGlobalId == 2        \* globalIds 1..MaxGlobalId that a mocked uuidv7() returns
AggEvents == 2          \* appends before the aggregate store is read
LikeEvents == 2         \* like events appended per behaviour of LikeSpec
MaxTimestamp == 2       \* milliseconds 1..MaxTimestamp that uuidv7() stamps into a globalId
MaxFolds == 3           \* runs of the like fold per behaviour of LikeSpec
MaxInitCalls == 2       \* initialize() calls awaiting at the same time
MaxId == 6              \* ids 0..MaxId of the interval algebra on its own
MaxSafeInteger == 1000000000  \* stands for Number.MAX_SAFE_INTEGER: only compared with ids

Keys == {"a", "b"}      \* keys of the aggregate store
Listeners == {"l1", "l2"}
Ids == 1..(IF GapEvents > MaxEvents THEN GapEvents ELSE MaxEvents)

VARIABLES
    log,              \* Events object store: localId -> [globalId, key of the payload]
    nextId,           \* the autoIncrement key generator of the Events store
    savedRanges,      \* Metadata record 'ProcessedRanges' (committed)
    total,            \* aggregate object store (committed): key -> total
    db,               \* EventAggregator.db is not null
    initTried,        \* _initializationTried
    initSucceeded,    \* _initializationSucceeded
    initError,        \* _initializationError is not null
    initCalls,        \* initialize() calls past the _initializationTried check, not yet finished
    processedRanges,  \* EventAggregator.processedRanges (in memory)
    timer,            \* processingIntervalId is not null
    intervals,        \* interval timers of the engine that setInterval made and nothing cleared
    listeners,        \* EventAggregator.listeners
    storeSubs,        \* handleNewEvent subscriptions held by EventStore.listeners
    reads,            \* catch-up ticks awaiting getEventsBefore
    txq,              \* engine transactions, in creation order
    restarts,         \* history: process restarts so far
    folded,           \* history: committed processEvent runs per localId
    out,              \* what the last step logged, notified and returned
    inserted,         \* history: ids passed to updateProcessedRanges
    found,            \* last result of findRangeToProcess / isFullyCovered
    storeDb,          \* EventStore.db is not null
    storeInitTried,   \* EventStore._initializationTried
    storeInitSucceeded, \* EventStore._initializationSucceeded
    storeInitError,   \* EventStore._initializationError is not null
    disposed,         \* history: EventAggregator.dispose() has been called
    retired,          \* history: listeners registered when dispose() was called
    storeDisposed,    \* history: EventStore.dispose() has been called
    subsSince,        \* history: subscriptions to the store made after its dispose()
    pending,          \* the add() whose request has succeeded and whose transaction is open
    appended,         \* history: add() transactions that completed
    storeListeners,   \* EventStore.listeners other than handleNewEvent, in insertion order
    unsubscribed,     \* history: store listeners whose unsubscribe closure was called
    likeLog,          \* Events store of the like showcase: [key, isLiked, timestamp of globalId]
    likeStore,        \* Like object store: key -> at most one [isLiked, lastUpdated]
    likeHistory       \* history: localIds passed to LikeEventAggregator.processEvent, in order

vars == <<log, nextId, savedRanges, total, db, initTried, initSucceeded, initError,
          initCalls,
          processedRanges, timer, intervals, listeners, storeSubs, reads, txq, restarts,
          folded, out, inserted, found, storeDb, storeInitTried, storeInitSucceeded,
          storeInitError, disposed, retired, storeDisposed, subsSince, pending,
          appended, storeListeners, unsubscribed, likeLog, likeStore, likeHistory>>

storeVars == <<log, nextId>>
dbVars == <<savedRanges, total, folded>>
initVars == <<initTried, initSucceeded, initError, initCalls>>
algebraVars == <<inserted, found, restarts>>
storeLifeVars == <<storeDb, storeInitTried, storeInitSucceeded, storeInitError>>
disposeVars == <<disposed, retired, storeDisposed, subsSince>>
appendVars == <<pending, appended, storeListeners, unsubscribed>>
likeVars == <<likeLog, likeStore, likeHistory>>

\* ------------------------------------------------------------ helpers
Max(a, b) == IF a >= b THEN a ELSE b
Min(a, b) == IF a <= b THEN a ELSE b
SetMax(S) == CHOOSE m \in S : \A x \in S : x <= m

Range(s, e) == [start |-> s, end |-> e]

\* The ids a list of ranges covers.
Covered(ranges) == UNION {ranges[i].start .. ranges[i].end : i \in 1..Len(ranges)}

\* ---------------------------------------------- updateProcessedRanges
\* allRanges.sort((a, b) => a.start - b.start): a stable sort.
RECURSIVE SortByStart(_)
SortByStart(rs) ==
    IF Len(rs) <= 1 THEN rs
    ELSE LET sorted == SortByStart(SubSeq(rs, 1, Len(rs) - 1))
             x == rs[Len(rs)]
             k == Cardinality({i \in 1..Len(sorted) : sorted[i].start <= x.start})
         IN SubSeq(sorted, 1, k) \o <<x>> \o SubSeq(sorted, k + 1, Len(sorted))

\* Faulty variant of the sweep: merges only overlapping ranges, not adjacent ones.
RECURSIVE MergeSweepNoAdjacent(_, _, _, _)
MergeSweepNoAdjacent(allRanges, i, currentRange, mergedRanges) ==
    IF i > Len(allRanges) THEN Append(mergedRanges, currentRange)
    ELSE LET nextRange == allRanges[i] IN
         IF currentRange.end >= nextRange.start
         THEN MergeSweepNoAdjacent(allRanges, i + 1,
                  [currentRange EXCEPT !.end = Max(currentRange.end, nextRange.end)],
                  mergedRanges)
         ELSE MergeSweepNoAdjacent(allRanges, i + 1, nextRange,
                  Append(mergedRanges, currentRange))

\* Faulty variant of the sweep: takes the next range's end instead of the maximum.
RECURSIVE MergeSweepNoMax(_, _, _, _)
MergeSweepNoMax(allRanges, i, currentRange, mergedRanges) ==
    IF i > Len(allRanges) THEN Append(mergedRanges, currentRange)
    ELSE LET nextRange == allRanges[i] IN
         IF currentRange.end + 1 >= nextRange.start
         THEN MergeSweepNoMax(allRanges, i + 1,
                  [currentRange EXCEPT !.end = nextRange.end], mergedRanges)
         ELSE MergeSweepNoMax(allRanges, i + 1, nextRange,
                  Append(mergedRanges, currentRange))

\* Faulty variant of the sweep: returns without pushing the last current range.
RECURSIVE MergeSweepNoFinalPush(_, _, _, _)
MergeSweepNoFinalPush(allRanges, i, currentRange, mergedRanges) ==
    IF i > Len(allRanges) THEN mergedRanges
    ELSE LET nextRange == allRanges[i] IN
         IF currentRange.end + 1 >= nextRange.start
         THEN MergeSweepNoFinalPush(allRanges, i + 1,
                  [currentRange EXCEPT !.end = Max(currentRange.end, nextRange.end)],
                  mergedRanges)
         ELSE MergeSweepNoFinalPush(allRanges, i + 1, nextRange,
                  Append(mergedRanges, currentRange))

\* The for loop of updateProcessedRanges, from index i (1-based) on, and the push
\* of the last current range after it.
RECURSIVE MergeSweep(_, _, _, _)
MergeSweep(allRanges, i, currentRange, mergedRanges) ==
    IF i > Len(allRanges) THEN Append(mergedRanges, currentRange)
    ELSE LET nextRange == allRanges[i] IN
         IF currentRange.end + 1 >= nextRange.start
         THEN MergeSweep(allRanges, i + 1,
                  [currentRange EXCEPT !.end = Max(currentRange.end, nextRange.end)],
                  mergedRanges)
         ELSE MergeSweep(allRanges, i + 1, nextRange, Append(mergedRanges, currentRange))

updateProcessedRanges(ranges, start, end) ==
    LET allRanges == SortByStart(Append(ranges, Range(start, end)))
    IN MergeSweep(allRanges, 2, allRanges[1], <<>>)

\* ------------------------------------------------- findRangeToProcess
NoRange == [kind |-> "null", start |-> 0, end |-> 0]
Unexpected == [kind |-> "throw", start |-> 0, end |-> 0]
Gap(s, e) == [kind |-> "range", start |-> s, end |-> e]

\* Faulty variant: takes the gap below the first range instead of the one below the last.
findRangeToProcessOldest(ranges) ==
    LET size == Len(ranges) IN
    IF size = 0 THEN Gap(0, MaxSafeInteger)
    ELSE IF ranges[1].start = 1 /\ size = 1 THEN NoRange
    ELSE IF ranges[1].start > 1 \/ size = 1 THEN Gap(0, ranges[1].start)
    ELSE Gap(ranges[1].end, ranges[2].start)

findRangeToProcess(ranges) ==
    LET size == Len(ranges) IN
    IF size = 0 THEN Gap(0, MaxSafeInteger)
    ELSE LET rangeEnd == ranges[size].start IN
         IF rangeEnd = 1 THEN NoRange
         ELSE IF rangeEnd = 0 THEN Unexpected
         ELSE IF 1 < size THEN Gap(ranges[size - 1].end, rangeEnd)
         ELSE Gap(0, rangeEnd)

\* Faulty variant: a single interval starting at 1 counts as full coverage too.
isFullyCoveredFromOne(ranges) ==
    IF Len(ranges) = 0 THEN FALSE
    ELSE Len(ranges) = 1 /\ ranges[1].start <= 1

\* The hasAnyRecord() probe of the empty case is not awaited: its result is dropped.
isFullyCovered(ranges) ==
    IF Len(ranges) = 0 THEN FALSE
    ELSE Len(ranges) = 1 /\ ranges[1].start = 0

\* ------------------------------------------------------- EventStore
RECURSIVE DescSeq(_)
DescSeq(S) == IF S = {} THEN <<>> ELSE <<SetMax(S)>> \o DescSeq(S \ {SetMax(S)})

RECURSIVE AscSeq(_)
AscSeq(S) ==
    IF S = {} THEN <<>>
    ELSE LET first == CHOOSE i \in S : \A j \in S : i <= j
         IN <<first>> \o AscSeq(S \ {first})

\* Faulty variant: the cursor never stops at the limit.
getEventsNoLimit(matching, limit) == matching

\* getEvents: the cursor pushes a record, then stops once results.length is not below
\* the limit (so not before the first record); a limit of 0, like an absent one, is
\* falsy and reads to the end of the key range.
getEvents(matching, limit) ==
    IF limit = 0 THEN matching
    ELSE SubSeq(matching, 1, Min(Len(matching), Max(limit, 1)))

\* getEventsBefore(localId, {limit}): direction 'prev' below an open upper bound.
StoredEvent(store, i) == [localId |-> i, key |-> store[i].key]

getEventsBefore(store, localId, limit) ==
    LET ids == getEvents(DescSeq({i \in DOMAIN store : i < localId}), limit)
    IN [n \in 1..Len(ids) |-> StoredEvent(store, ids[n])]

\* getEventsAfter(localId, {limit}): direction 'next' above an open lower bound.
getEventsAfter(store, localId, limit) ==
    LET ids == getEvents(AscSeq({i \in DOMAIN store : i > localId}), limit)
    IN [n \in 1..Len(ids) |-> StoredEvent(store, ids[n])]

\* cleanupOldData(keepLatest): an ascending cursor deletes count - keepLatest records.
RECURSIVE DeleteOldest(_, _)
DeleteOldest(store, deleteCount) ==
    IF deleteCount = 0 \/ DOMAIN store = {} THEN store
    ELSE LET first == CHOOSE i \in DOMAIN store : \A j \in DOMAIN store : i <= j
         IN DeleteOldest([i \in DOMAIN store \ {first} |-> store[i]], deleteCount - 1)

\* Faulty variant: deletes one record more.
cleanupOldDataOneMore(store, keepLatest) ==
    LET count == Cardinality(DOMAIN store) IN
    IF count <= keepLatest THEN store ELSE DeleteOldest(store, count - keepLatest + 1)

cleanupOldData(store, keepLatest) ==
    LET count == Cardinality(DOMAIN store) IN
    IF count <= keepLatest THEN store ELSE DeleteOldest(store, count - keepLatest)

\* ------------------------------------------------------ fold and output
Item(key, t) == [aggregationKey |-> key, total |-> t]

\* processEvent on the transaction's view of the aggregate store.  "rec": the fold
\* writes the key's record and returns it; "null": it writes nothing and returns null.
processEventStore(store, key, outcome) ==
    IF outcome = "rec" THEN [store EXCEPT ![key] = @ + 1] ELSE store

processEventResult(store, key, outcome) ==
    IF outcome = "rec" THEN <<Item(key, store[key] + 1)>> ELSE <<>>

\* Folds evs[i..upTo] in order; returns the store view and the changed items.
RECURSIVE FoldAll(_, _, _, _, _, _)
FoldAll(store, changedItems, evs, outcomes, i, upTo) ==
    IF i > upTo THEN [store |-> store, changed |-> changedItems]
    ELSE FoldAll(processEventStore(store, evs[i].key, outcomes[i]),
                 changedItems \o processEventResult(store, evs[i].key, outcomes[i]),
                 evs, outcomes, i + 1, upTo)

NoCalls == [l \in Listeners |-> <<>>]
NoOut == [op |-> "none", id |-> 0, logged |-> {}, calls |-> NoCalls, rejected |-> FALSE]
Out(op, id, logged, calls, rejected) ==
    [op |-> op, id |-> id, logged |-> logged, calls |-> calls, rejected |-> rejected]

\* Faulty variant: notifies the first listener only.
notifyListenersFirstOnly(registered, changes) ==
    [l \in Listeners |->
        IF l \in registered /\ l = (CHOOSE m \in registered : TRUE) THEN changes ELSE <<>>]

\* notifyListeners(changes): every registered listener receives every change.
notifyListeners(registered, changes) ==
    [l \in Listeners |-> IF l \in registered THEN changes ELSE <<>>]

ListenerLog(registered, changes, threw) ==
    IF threw /\ registered # {} /\ changes # <<>> THEN {"Error in listener:"} ELSE {}

InFlight == Len(txq) + Len(reads)

Op(kind, pc, evs, changed, wTotal, wRanges) ==
    [kind |-> kind, pc |-> pc, evs |-> evs, changed |-> changed,
     wTotal |-> wTotal, wRanges |-> wRanges]
\* An operation past its try block, with the listener calls it has made so far.
WithCalls(op, calls) ==
    [kind |-> op.kind, pc |-> op.pc, evs |-> op.evs, changed |-> op.changed,
     wTotal |-> op.wTotal, wRanges |-> op.wRanges, calls |-> calls]
NewOp(kind, evs) == Op(kind, "fold", evs, <<>>, [k \in Keys |-> 0], <<>>)

RemoveAt(seq, i) == SubSeq(seq, 1, i - 1) \o SubSeq(seq, i + 1, Len(seq))

\* --------------------------------------------------------------- Init
\* The provider has constructed the EventStore and the EventAggregator and has awaited
\* eventStore.initialize(), which opened the log; aggregator.initialize() is still to come.
Init ==
    /\ log = <<>>
    /\ nextId = 1
    /\ savedRanges = <<>>
    /\ total = [k \in Keys |-> 0]
    /\ db = FALSE
    /\ initTried = FALSE
    /\ initSucceeded = FALSE
    /\ initError = FALSE
    /\ initCalls = 0
    /\ processedRanges = <<>>
    /\ timer = FALSE
    /\ intervals = 0
    /\ listeners = {}
    /\ storeSubs = 0
    /\ reads = <<>>
    /\ txq = <<>>
    /\ restarts = 0
    /\ folded = [i \in Ids |-> 0]
    /\ out = NoOut
    /\ inserted = {}
    /\ found = NoRange
    /\ storeDb = TRUE
    /\ storeInitTried = TRUE
    /\ storeInitSucceeded = FALSE
    /\ storeInitError = FALSE
    /\ disposed = FALSE
    /\ retired = {}
    /\ storeDisposed = FALSE
    /\ subsSince = 0
    /\ pending = <<>>
    /\ appended = 0
    /\ storeListeners = <<>>
    /\ unsubscribed = {}
    /\ likeLog = <<>>
    /\ likeStore = [k \in Keys |-> <<>>]
    /\ likeHistory = <<>>

\* ------------------------------------------------------------ actions
\* EventAggregator.initialize(): open the database, load the ranges, subscribe.
Initialize ==
    /\ ~initTried
    /\ initTried' = TRUE
    /\ \E result \in {"ok", "openFailed", "loadFailed"} :
         /\ db' = (result # "openFailed")
         /\ initSucceeded' = (result = "ok")
         /\ initError' = (result # "ok")
         /\ processedRanges' = IF result = "ok" THEN savedRanges ELSE processedRanges
         /\ storeSubs' = IF result = "ok" THEN storeSubs + 1 ELSE storeSubs
         /\ subsSince' = IF result = "ok" /\ storeDisposed THEN subsSince + 1 ELSE subsSince
    /\ out' = NoOut
    /\ UNCHANGED <<initCalls, storeVars, dbVars, timer, intervals, listeners, reads, txq, algebraVars,
                   storeLifeVars, disposed, retired, storeDisposed, appendVars,
                   likeVars>>

\* Faulty variant: dispose() leaves the listeners registered.
keepListeners(registered) == registered

\* this.listeners.clear()
clearListeners(registered) == {}

\* EventAggregator.dispose(): clears the listeners, closes and drops the database.  A
\* repeated call on an engine that holds neither changes nothing.
Dispose ==
    /\ ~disposed \/ db \/ listeners # {}
    /\ listeners' = clearListeners(listeners)
    /\ db' = FALSE
    /\ disposed' = TRUE
    /\ retired' = retired \cup listeners
    /\ out' = NoOut
    /\ UNCHANGED <<storeVars, dbVars, initVars, processedRanges, timer, intervals, storeSubs,
                   reads, txq, algebraVars, storeLifeVars, storeDisposed, subsSince,
                   appendVars,
                   likeVars>>

\* The process ends and the provider constructs a new EventStore and EventAggregator:
\* what was in memory is gone, transactions not yet committed are aborted.
Restart ==
    /\ restarts < MaxRestarts
    /\ restarts' = restarts + 1
    /\ db' = FALSE
    /\ initTried' = FALSE
    /\ initSucceeded' = FALSE
    /\ initError' = FALSE
    /\ initCalls' = 0
    /\ processedRanges' = <<>>
    /\ timer' = FALSE
    /\ intervals' = 0
    /\ listeners' = {}
    /\ storeSubs' = 0
    /\ reads' = <<>>
    /\ txq' = <<>>
    /\ out' = NoOut
    /\ storeDb' = TRUE
    /\ storeInitTried' = TRUE
    /\ storeInitSucceeded' = FALSE
    /\ storeInitError' = FALSE
    /\ disposed' = FALSE
    /\ retired' = {}
    /\ storeDisposed' = FALSE
    /\ subsSince' = 0
    /\ pending' = <<>>
    /\ storeListeners' = <<>>
    /\ unsubscribed' = {}
    /\ UNCHANGED <<storeVars, dbVars, inserted, found, appended,
                   likeVars>>

\* Faulty variant: startProcessing() calls setInterval whether or not an id is held.
startedIntervalsUnguarded(active, n) == n + 1

\* startProcessing(): setInterval is called only when processingIntervalId is null.
startedIntervals(active, n) == IF active THEN n ELSE n + 1

startProcessing ==
    /\ ~timer
    /\ timer' = TRUE
    /\ intervals' = startedIntervals(timer, intervals)
    /\ out' = NoOut
    /\ UNCHANGED <<storeVars, dbVars, db, initVars, processedRanges, listeners,
                   storeSubs, reads, txq, algebraVars, storeLifeVars,
                   disposeVars, appendVars,
                   likeVars>>

\* stopProcessing(): clearInterval(processingIntervalId) when an id is held.
stoppedIntervals(active, n) == IF active THEN n - 1 ELSE n

stopProcessing ==
    /\ timer
    /\ timer' = FALSE
    /\ intervals' = stoppedIntervals(timer, intervals)
    /\ out' = NoOut
    /\ UNCHANGED <<storeVars, dbVars, db, initVars, processedRanges, listeners,
                   storeSubs, reads, txq, algebraVars, storeLifeVars,
                   disposeVars, appendVars,
                   likeVars>>

\* EventAggregator.subscribe(listener) and the unsubscribe closure it returns.
subscribe(l) ==
    /\ l \notin listeners
    /\ listeners' = listeners \cup {l}
    /\ retired' = retired \ {l}
    /\ out' = NoOut
    /\ UNCHANGED <<storeVars, dbVars, db, initVars, processedRanges, timer, intervals,
                   storeSubs, reads, txq, algebraVars, storeLifeVars, disposed,
                   storeDisposed, subsSince, appendVars,
                   likeVars>>

unsubscribe(l) ==
    /\ l \in listeners
    /\ listeners' = listeners \ {l}
    /\ out' = NoOut
    /\ UNCHANGED <<storeVars, dbVars, db, initVars, processedRanges, timer, intervals,
                   storeSubs, reads, txq, algebraVars, storeLifeVars,
                   disposeVars, appendVars,
                   likeVars>>

\* A record of the Events store.
Record(globalId, key) == [globalId |-> globalId, key |-> key]

\* store.add({ globalId, value }) in the transaction's view of the Events store.
storeAdd(store, localId, record) ==
    [i \in DOMAIN store \cup {localId} |-> IF i = localId THEN record ELSE store[i]]

\* EventStore.add(value) with a globalId from uuidv7() that no record holds, in a
\* transaction that completes as soon as its request has succeeded: the record is
\* stored under the next localId and every subscribed handleNewEvent is called with
\* it; a handler whose engine has no database rejects, one that has opens its
\* transaction and starts the fold.  On a store without a database add() throws
\* before anything is stored.
add(key) ==
    /\ storeDb
    /\ pending = <<>>
    /\ (storeSubs > 0 /\ db) => InFlight + storeSubs <= MaxInFlight
    /\ log' = storeAdd(log, nextId, Record(nextId, key))
    /\ nextId' = nextId + 1
    /\ appended' = appended + 1
    /\ txq' = IF db
              THEN txq \o [i \in 1..storeSubs |->
                            NewOp("live", <<[localId |-> nextId, key |-> key]>>)]
              ELSE txq
    /\ out' = NoOut
    /\ UNCHANGED <<dbVars, db, initVars, processedRanges, timer, intervals, listeners, storeSubs,
                   reads, algebraVars, storeLifeVars,
                   disposeVars, pending, storeListeners, unsubscribed,
                   likeVars>>

\* EventStore.cleanupOldData(keepLatest), in one transaction on the Events store.
compact(keepLatest) ==
    /\ storeDb
    /\ pending = <<>>
    /\ log' = cleanupOldData(log, keepLatest)
    /\ out' = Out("cleanupOldData", keepLatest, {}, NoCalls, FALSE)
    /\ UNCHANGED <<nextId, dbVars, db, initVars, processedRanges, timer, intervals, listeners,
                   storeSubs, reads, txq, algebraVars, storeLifeVars,
                   disposeVars, appendVars,
                   likeVars>>

\* Faulty variant: the catch logs and rethrows.
handleNewEventRethrow(op, localId) ==
    Out(op, localId, {"Error processing new event:"}, NoCalls, TRUE)

\* The catch of handleNewEvent: console.error, transaction.abort(), and the promise
\* resolves; no listener has been called.
handleNewEventCatch(op, localId) ==
    Out(op, localId, {"Error processing new event:"}, NoCalls, FALSE)

\* EventStore.initialize(): opens the log database; the error is kept, the succeeded
\* flag is assigned nowhere in the class.
StoreInitialize ==
    /\ ~storeInitTried
    /\ storeInitTried' = TRUE
    /\ \E result \in {"ok", "openFailed"} :
         /\ storeDb' = (result = "ok")
         /\ storeInitError' = (result # "ok")
    /\ out' = Out("storeInitialize", 0, {}, NoCalls, FALSE)
    /\ UNCHANGED <<storeVars, dbVars, db, initVars, processedRanges, timer, intervals, listeners,
                   storeSubs, reads, txq, algebraVars, storeInitSucceeded, disposeVars, appendVars,
                   likeVars>>

\* initialize() of the store or of the engine when _initializationTried is set.
InitializeAgain(who) ==
    /\ IF who = "store" THEN storeInitTried ELSE initTried
    /\ out' = Out(IF who = "store" THEN "storeInitializeAgain" ELSE "initializeAgain",
                  0, {}, NoCalls, FALSE)
    /\ UNCHANGED <<storeVars, dbVars, db, initVars, processedRanges, timer, intervals, listeners,
                   storeSubs, reads, txq, algebraVars, storeLifeVars, disposeVars, appendVars,
                   likeVars>>

\* EventStore.dispose(): clears the subscribers, closes and drops the database.
StoreDispose ==
    /\ ~storeDisposed \/ storeDb \/ storeSubs > 0
    /\ storeSubs' = 0
    /\ storeDb' = FALSE
    /\ storeDisposed' = TRUE
    /\ subsSince' = 0
    /\ storeListeners' = <<>>
    /\ out' = NoOut
    /\ UNCHANGED <<storeVars, dbVars, db, initVars, processedRanges, timer, intervals, listeners,
                   reads, txq, algebraVars, storeInitTried, storeInitSucceeded,
                   storeInitError, disposed, retired, pending, appended, unsubscribed,
                   likeVars>>

\* store.get(itemId) on the aggregate store: the record, or nothing for a key no
\* committed fold has written (a stored total is at least 1).
getItemResult(store, itemId) ==
    IF store[itemId] = 0 THEN <<>> ELSE <<Item(itemId, store[itemId])>>

\* Faulty variant: keys without a stored record are left out of the map.
getItemDataStoredOnly(store, itemIds) ==
    [k \in {j \in itemIds : getItemResult(store, j) # <<>>} |-> getItemResult(store, k)[1]]

\* Promise.all(itemIds.map(getItemData)) reduced to an object: for every requested
\* key request.result ?? {aggregationKey: itemId, total: 0}.
getItemData(store, itemIds) ==
    [k \in itemIds |-> IF getItemResult(store, k) = <<>>
                       THEN Item(k, 0)
                       ELSE getItemResult(store, k)[1]]

\* getAggregated(itemIds): throws without a database, else reads the committed record
\* of every key, a missing one as total 0.
getAggregated(itemIds) ==
    /\ out' = [op |-> "getAggregated", id |-> 0, logged |-> {}, calls |-> NoCalls,
               rejected |-> ~db, itemIds |-> itemIds,
               result |-> IF db THEN getItemData(total, itemIds) ELSE <<>>]
    /\ UNCHANGED <<storeVars, dbVars, db, initVars, processedRanges, timer, intervals, listeners,
                   storeSubs, reads, txq, algebraVars, storeLifeVars, disposeVars, appendVars,
                   likeVars>>

\* Faulty variant: notifyListeners lets a listener's exception through to its caller.
listenerErrorEscapesUncaught(threw) == threw

\* The try/catch around listener(updated): the exception of a listener is logged and
\* does not leave notifyListeners.
listenerErrorEscapes(threw) == FALSE

\* ---------------------------------------------------------- live path
\* handleNewEvent from the fold to the answer of the save request, in the head
\* transaction: processEvent, updateProcessedRanges(localId, localId),
\* saveProcessedRanges, then notifyListeners for a non-null result.  A fold that
\* throws, or a save that fails, lands in the catch: log and abort.
handleNewEvent ==
    /\ txq # <<>>
    /\ Head(txq).kind = "live"
    /\ Head(txq).pc = "fold"
    /\ LET op == Head(txq)
           ev == op.evs[1]
       IN \E outcome \in {"rec", "null", "throw"}, saved \in BOOLEAN, threw \in BOOLEAN :
            IF outcome = "throw"
            THEN /\ saved /\ ~threw
                 /\ txq' = Tail(txq)
                 /\ out' = handleNewEventCatch("liveFoldFailed", ev.localId)
                 /\ UNCHANGED processedRanges
            ELSE LET changedItem == processEventResult(total, ev.key, outcome) IN
                 /\ processedRanges' =
                       updateProcessedRanges(processedRanges, ev.localId, ev.localId)
                 /\ IF saved
                    THEN /\ threw => (listeners # {} /\ changedItem # <<>>)
                         /\ IF listenerErrorEscapes(threw)
                            THEN /\ txq' = Tail(txq)
                                 /\ out' = handleNewEventCatch("liveNotifyFailed", ev.localId)
                            ELSE /\ txq' =
                                      <<WithCalls(Op("live", "commit", op.evs, changedItem,
                                                     processEventStore(total, ev.key, outcome),
                                                     processedRanges'),
                                                  notifyListeners(listeners, changedItem))>>
                                      \o Tail(txq)
                                 /\ out' = Out("liveNotified", ev.localId,
                                               ListenerLog(listeners, changedItem, threw),
                                               notifyListeners(listeners, changedItem), FALSE)
                    ELSE /\ ~threw
                         /\ txq' = Tail(txq)
                         /\ out' = handleNewEventCatch("liveSaveFailed", ev.localId)
    /\ UNCHANGED <<storeVars, dbVars, db, initVars, timer, intervals, listeners, storeSubs,
                   reads, algebraVars, storeLifeVars,
                   disposeVars, appendVars,
                   likeVars>>

\* ------------------------------------------------------- catch-up path
\* processEvents up to the getEventsBefore request.
tick ==
    /\ intervals > 0
    /\ IF ~db
       THEN /\ out' = Out("tickFailed", 0, {}, NoCalls, TRUE)
            /\ UNCHANGED <<timer, intervals, reads>>
       ELSE IF isFullyCovered(processedRanges)
       THEN /\ timer' = FALSE
            /\ intervals' = stoppedIntervals(timer, intervals)
            /\ out' = NoOut
            /\ UNCHANGED reads
       ELSE LET range == findRangeToProcess(processedRanges) IN
            IF range.kind = "throw"
            THEN /\ out' = Out("tickFailed", 0, {}, NoCalls, TRUE)
                 /\ UNCHANGED <<timer, intervals, reads>>
            ELSE IF range.kind = "null"
            THEN /\ out' = Out("tickNoRange", 0, {}, NoCalls, FALSE)
                 /\ UNCHANGED <<timer, intervals, reads>>
            ELSE IF ~storeDb
            THEN /\ out' = Out("tickFailed", 0, {}, NoCalls, TRUE)
                 /\ UNCHANGED <<timer, intervals, reads>>
            ELSE /\ InFlight < MaxInFlight
                 /\ reads' = Append(reads,
                        [end |-> range.end,
                         limit |-> Min(BatchSize, range.end - range.start - 1)])
                 /\ out' = NoOut
                 /\ UNCHANGED <<timer, intervals>>
    /\ UNCHANGED <<storeVars, dbVars, db, initVars, processedRanges, listeners,
                   storeSubs, txq, algebraVars, storeLifeVars,
                   disposeVars, appendVars,
                   likeVars>>

\* processEvents when getEventsBefore answers: nothing read, or a transaction is
\* opened for the batch (this.db.transaction on a null db is a TypeError).
read(i) ==
    /\ i \in 1..Len(reads)
    /\ LET eventsBefore == getEventsBefore(log, reads[i].end, reads[i].limit) IN
       /\ reads' = RemoveAt(reads, i)
       /\ IF eventsBefore = <<>>
          THEN /\ out' = Out("tickNoEvents", 0, {}, NoCalls, FALSE)
               /\ UNCHANGED txq
          ELSE IF ~db
          THEN /\ out' = Out("tickFailed", 0, {}, NoCalls, TRUE)
               /\ UNCHANGED txq
          ELSE /\ txq' = Append(txq, NewOp("batch", eventsBefore))
               /\ out' = NoOut
    /\ UNCHANGED <<storeVars, dbVars, db, initVars, processedRanges, timer, intervals, listeners,
                   storeSubs, algebraVars, storeLifeVars,
                   disposeVars, appendVars,
                   likeVars>>

\* Faulty variant: always inserts [minId, maxId].
batchRangeSeenOnly(evs) == Range(evs[Len(evs)].localId, evs[1].localId)

\* The interval a batch inserts: [1, maxId] below the batch size, else [minId, maxId].
batchRange(evs) ==
    LET maxId == evs[1].localId
        minId == evs[Len(evs)].localId
    IN IF Len(evs) < BatchSize THEN Range(1, maxId) ELSE Range(minId, maxId)

\* Faulty variant: coverage advances before the folds run.
rangesAfterBatchEager(ranges, evs, failAt) ==
    updateProcessedRanges(ranges, batchRange(evs).start, batchRange(evs).end)

\* The in-memory list when the try block of processEvents is left: a fold that throws
\* (failAt > 0) leaves the loop before updateProcessedRanges is reached.
rangesAfterBatch(ranges, evs, failAt) ==
    IF failAt > 0 THEN ranges
    ELSE updateProcessedRanges(ranges, batchRange(evs).start, batchRange(evs).end)

\* processEvents from the first fold to the answer of the save request, in the head
\* transaction.  On success the function returns the commit promise and line 217 is
\* not reached; a fold that throws at failAt, or a save that fails, lands in the
\* catch: log, abort, then line 217 notifies the items folded so far.
processEvents ==
    /\ txq # <<>>
    /\ Head(txq).kind = "batch"
    /\ Head(txq).pc = "fold"
    /\ LET op == Head(txq)
           n == Len(op.evs)
       IN \E outcomes \in [1..n -> {"rec", "null"}], failAt \in 0..n,
             saved \in BOOLEAN, threw \in BOOLEAN :
            IF failAt > 0
            THEN LET done == FoldAll(total, <<>>, op.evs, outcomes, 1, failAt - 1) IN
                 /\ saved
                 /\ \A j \in failAt..n : outcomes[j] = "rec"
                 /\ threw => (listeners # {} /\ done.changed # <<>>)
                 /\ txq' = Tail(txq)
                 /\ out' = Out("batchFoldFailed", op.evs[failAt].localId,
                               {"Error processing events:"}
                                   \cup ListenerLog(listeners, done.changed, threw),
                               notifyListeners(listeners, done.changed), FALSE)
                 /\ processedRanges' = rangesAfterBatch(processedRanges, op.evs, failAt)
            ELSE LET done == FoldAll(total, <<>>, op.evs, outcomes, 1, n)
                 IN /\ processedRanges' = rangesAfterBatch(processedRanges, op.evs, 0)
                    /\ IF saved
                       THEN /\ ~threw
                            /\ txq' = <<WithCalls(Op("batch", "commit", op.evs,
                                                     done.changed, done.store,
                                                     processedRanges'), NoCalls)>>
                                      \o Tail(txq)
                            /\ out' = NoOut
                       ELSE /\ threw => (listeners # {} /\ done.changed # <<>>)
                            /\ txq' = Tail(txq)
                            /\ out' = Out("batchSaveFailed", op.evs[1].localId,
                                          {"Error processing events:"}
                                            \cup ListenerLog(listeners, done.changed, threw),
                                          notifyListeners(listeners, done.changed), FALSE)
    /\ UNCHANGED <<storeVars, dbVars, db, initVars, timer, intervals, listeners, storeSubs,
                   reads, algebraVars, storeLifeVars,
                   disposeVars, appendVars,
                   likeVars>>

\* The head transaction completes: its writes become the committed state; or the
\* commit fails and they are discarded.
commit ==
    /\ txq # <<>>
    /\ Head(txq).pc = "commit"
    /\ LET op == Head(txq)
           ids == {op.evs[j].localId : j \in 1..Len(op.evs)}
       IN \E committed \in BOOLEAN :
            IF committed
            THEN /\ total' = op.wTotal
                 /\ savedRanges' = op.wRanges
                 /\ folded' = [i \in Ids |-> IF i \in ids THEN folded[i] + 1 ELSE folded[i]]
                 /\ out' = Out(IF op.kind = "live" THEN "liveCommitted" ELSE "batchCommitted",
                               op.evs[1].localId, {}, NoCalls, FALSE)
            ELSE /\ UNCHANGED <<total, savedRanges, folded>>
                 /\ out' = Out(IF op.kind = "live" THEN "liveCommitFailed"
                               ELSE "batchCommitFailed",
                               op.evs[1].localId, {}, NoCalls, TRUE)
    /\ txq' = Tail(txq)
    /\ UNCHANGED <<storeVars, db, initVars, processedRanges, timer, intervals, listeners,
                   storeSubs, reads, algebraVars, storeLifeVars,
                   disposeVars, appendVars,
                   likeVars>>

\* ------------------------------------------------------ specification
StorageFailures ==
    {"liveSaveFailed", "batchSaveFailed", "liveCommitFailed", "batchCommitFailed"}
FoldFailures == {"liveFoldFailed", "batchFoldFailed"}

\* One engine over the log for the life of a process: both delivery paths, with
\* fold and storage failures.
Next ==
    \/ Initialize
    \/ startProcessing
    \/ stopProcessing
    \/ \E key \in {"a"} : nextId <= MaxEvents /\ add(key)
    \/ handleNewEvent
    \/ tick
    \/ \E i \in 1..MaxInFlight : read(i)
    \/ processEvents
    \/ commit

Spec == Init /\ [][Next]_vars

\* The live path and the change listeners of one engine.
LiveNext ==
    \/ Initialize
    \/ Dispose
    \/ \E l \in Listeners : subscribe(l)
    \/ \E l \in Listeners : unsubscribe(l)
    \/ \E key \in Keys : nextId <= MaxEvents /\ add(key)
    \/ handleNewEvent
    \/ commit

LiveSpec == Init /\ [][LiveNext]_vars

\* Both delivery paths on storage that does not fail (folds may throw).
GapNext ==
    \/ Initialize
    \/ startProcessing
    \/ \E key \in {"a"} : nextId <= GapEvents /\ add(key)
    \/ handleNewEvent /\ out'.op \notin StorageFailures
    \/ tick
    \/ \E i \in 1..MaxInFlight : read(i)
    \/ processEvents /\ out'.op \notin StorageFailures
    \/ commit /\ out'.op \notin StorageFailures

GapSpec == Init /\ [][GapNext]_vars

\* Both delivery paths across process restarts, with folds and storage that never
\* fail and an initialization that succeeds; every enabled step is eventually taken.
NoFailure == out'.op \notin (StorageFailures \cup FoldFailures)

FairNext ==
    \/ Initialize /\ initSucceeded'
    \/ Restart
    \/ startProcessing
    \/ \E key \in {"a"} : nextId <= MaxEvents /\ add(key)
    \/ handleNewEvent /\ NoFailure
    \/ tick
    \/ \E i \in 1..MaxInFlight : read(i)
    \/ processEvents /\ NoFailure
    \/ commit /\ NoFailure

FairSpec ==
    /\ Init
    /\ [][FairNext]_vars
    /\ WF_vars(Initialize /\ initSucceeded')
    /\ WF_vars(startProcessing)
    /\ WF_vars(handleNewEvent /\ NoFailure)
    /\ WF_vars(tick)
    /\ WF_vars(read(1))
    /\ WF_vars(processEvents /\ NoFailure)
    /\ WF_vars(commit /\ NoFailure)

\* The interval algebra on its own: any sequence of updateProcessedRanges calls from
\* the empty list, and findRangeToProcess on what they leave.
insert(start, end) ==
    /\ processedRanges' = updateProcessedRanges(processedRanges, start, end)
    /\ inserted' = inserted \cup (start..end)
    /\ found' = NoRange
    /\ UNCHANGED <<storeVars, dbVars, db, initVars, timer, intervals, listeners, storeSubs,
                   reads, txq, restarts, out, storeLifeVars, disposeVars, appendVars,
                   likeVars>>

findGap ==
    /\ found' = findRangeToProcess(processedRanges)
    /\ UNCHANGED <<storeVars, dbVars, db, initVars, processedRanges, timer, intervals, listeners,
                   storeSubs, reads, txq, restarts, out, inserted, storeLifeVars,
                   disposeVars, appendVars,
                   likeVars>>

RangesNext ==
    \/ \E start \in 0..MaxId, end \in 0..MaxId : start <= end /\ insert(start, end)
    \/ findGap

RangesSpec == Init /\ [][RangesNext]_vars

\* ------------------------------------------------------------- claims
\* What the claims speak of.
Stored == DOMAIN log
MemCovered == Covered(processedRanges)
SavedCovered == Covered(savedRanges)

\* The maximal runs of a set of ids, ascending: the list the union alone determines.
RECURSIVE RunsFrom(_, _)
RunsFrom(S, i) ==
    IF \A j \in S : j < i THEN <<>>
    ELSE LET s == CHOOSE a \in S : a >= i /\ \A b \in S : b >= i => a <= b
             e == CHOOSE a \in S : a >= s /\ (s..a) \subseteq S /\ a + 1 \notin S
         IN <<Range(s, e)>> \o RunsFrom(S, e + 1)
Runs(S) == RunsFrom(S, 0)

\* The uncovered runs of ids between the origin and the highest covered id.
HoleStarts(C) == {i \in 1..SetMax(C \cup {0}) : i \notin C /\ (i = 1 \/ i - 1 \in C)}
HoleFrom(C, i) == Gap(i - 1, CHOOSE e \in i + 1..SetMax(C) : e \in C /\ \A j \in i..e - 1 : j \notin C)
OldestHole(C) == HoleFrom(C, CHOOSE i \in HoleStarts(C) : \A j \in HoleStarts(C) : i <= j)
NewestHole(C) == HoleFrom(C, SetMax(HoleStarts(C)))

\* C4: after any sequence of inserts from the empty list, the list is sorted ascending
\* by start and any two of its intervals are separated by at least one uncovered id.
C4_SortedSeparated ==
    \A i \in 1..Len(processedRanges), j \in 1..Len(processedRanges) :
        /\ processedRanges[i].start <= processedRanges[i].end
        /\ i < j => processedRanges[i].end + 1 < processedRanges[j].start

C4_Witness == Len(processedRanges) = 3 /\ Cardinality(inserted) > 3

\* C5: the list depends only on the union of the inserted id sets: it is the list of
\* that union's maximal runs, and the single interval [0, K] when the union is 0..K.
C5_UnionDetermines ==
    /\ processedRanges = Runs(inserted)
    /\ \A K \in 0..MaxId : inserted = 0..K => processedRanges = <<Range(0, K)>>

C5_Witness == inserted = 0..MaxId /\ processedRanges = <<Range(0, MaxId)>>

\* C7 (as claimed): with two or more gaps in coverage, findRangeToProcess selects the
\* gap nearest the origin.
C7_OldestGapFirst ==
    (found.kind = "range" /\ Cardinality(HoleStarts(MemCovered)) >= 2)
        => found = OldestHole(MemCovered)

\* C7 (amended): with two or more gaps in coverage, findRangeToProcess selects the gap
\* nearest the newest covered id, the one directly below the last interval.
C7_NewestGapFirst ==
    (found.kind = "range" /\ Cardinality(HoleStarts(MemCovered)) >= 2)
        => found = NewestHole(MemCovered)

C7_Witness ==
    /\ found.kind = "range"
    /\ Cardinality(HoleStarts(MemCovered)) >= 2
    /\ found = NewestHole(MemCovered)
    /\ found # OldestHole(MemCovered)

\* C2: whatever the interleaving of live handling and catch-up ticks, the fold of any
\* localId is committed at most once.
C2_FoldedAtMostOnce == \A i \in Ids : folded[i] <= 1

\* C3: every localId inside persisted coverage that still has a record in the log has
\* had its fold committed at least once.
C3_CoveredWasFolded == \A i \in Stored : i \in SavedCovered => folded[i] >= 1

\* C6: once initialized, no engine step removes an id from coverage, in memory or in
\* the persisted record.
C6_CoverageOnlyGrows ==
    [][(initSucceeded /\ initSucceeded')
          => (MemCovered \subseteq MemCovered' /\ SavedCovered \subseteq SavedCovered')]_vars

C6_Witness ==
    /\ initSucceeded
    /\ out.op = "batchFoldFailed"
    /\ ~timer
    /\ Cardinality(MemCovered) >= 2
    /\ SavedCovered # {}

\* C8: when the transaction of a live fold of id n commits, n is inside coverage in
\* memory and in the persisted record, whether the fold returned a record or null.
C8_LiveCommitCovers ==
    out.op = "liveCommitted" => (out.id \in MemCovered /\ out.id \in SavedCovered)

C8_Witness ==
    /\ out.op = "liveCommitted"
    /\ total = [k \in Keys |-> 0]
    /\ out.id \in MemCovered
    /\ out.id \in SavedCovered

\* The result of the fold an engine transaction holds, read off its writes.
FoldResult(op) ==
    IF op.wTotal = total THEN <<>>
    ELSE <<Item(op.evs[1].key, op.wTotal[op.evs[1].key])>>

\* C9: for a live event whose fold succeeds, every listener registered at that time is
\* called exactly once with the fold's result when it is a record, and no listener is
\* called when it is null.
C9_EachListenerOnce ==
    out.op = "liveNotified" =>
        \A l \in Listeners :
            out.calls[l] = IF l \in listeners THEN FoldResult(Head(txq)) ELSE <<>>

C9_Witness ==
    /\ out.op = "liveNotified"
    /\ listeners = Listeners
    /\ \A l \in Listeners : Len(out.calls[l]) = 1 /\ out.calls[l][1].total = 2

\* C10: a live fold that throws is logged and handleNewEvent completes without raising;
\* the aggregate store, the coverage in memory and persisted, and the log with the
\* appended event are as before, and no listener is called.
C10_LiveFoldFailureContained ==
    [][out'.op = "liveFoldFailed" =>
          /\ ~out'.rejected
          /\ "Error processing new event:" \in out'.logged
          /\ out'.calls = NoCalls
          /\ UNCHANGED <<total, processedRanges, savedRanges, log>>
          /\ out'.id \in Stored]_vars

C10_Witness ==
    /\ out.op = "liveFoldFailed"
    /\ out.id \in Stored
    /\ out.id \notin MemCovered
    /\ MemCovered # {}
    /\ listeners # {}

\* C1: with fair ticks and folds that never fail, every stored event is eventually
\* folded and its localId eventually lies inside coverage.
C1_EveryEventEventuallyFolded ==
    \A i \in Ids : (i \in Stored) ~> (folded[i] >= 1 /\ i \in SavedCovered)

\* ------------------------------------------------ claims C11..C20
\* One engine, no restart, storage that never fails: a live fold may throw, the folds
\* of catch-up never do; every enabled step is eventually taken.
RetryNext ==
    \/ Initialize /\ initSucceeded'
    \/ startProcessing
    \/ \E key \in {"a"} : nextId <= MaxEvents /\ add(key)
    \/ handleNewEvent /\ out'.op \notin StorageFailures
    \/ tick
    \/ \E i \in 1..MaxInFlight : read(i)
    \/ processEvents /\ NoFailure
    \/ commit /\ NoFailure

RetrySpec ==
    /\ Init
    /\ [][RetryNext]_vars
    /\ WF_vars(Initialize /\ initSucceeded')
    /\ WF_vars(startProcessing)
    /\ WF_vars(handleNewEvent /\ out'.op \notin StorageFailures)
    /\ WF_vars(tick)
    /\ WF_vars(read(1))
    /\ WF_vars(processEvents /\ NoFailure)
    /\ WF_vars(commit /\ NoFailure)

\* C11: an event whose live fold threw is eventually folded by catch-up, under fair
\* ticks and catch-up folds that succeed, also when it is the newest event of the log.
C11_FailedLiveFoldRetried ==
    \A i \in Ids : (out.op = "liveFoldFailed" /\ out.id = i) ~> (folded[i] >= 1)

\* Both delivery paths over a log of a few events, with fold and storage failures.
BatchNext ==
    \/ Initialize
    \/ startProcessing
    \/ stopProcessing
    \/ \E key \in {"a"} : nextId <= BatchEvents /\ add(key)
    \/ handleNewEvent
    \/ tick
    \/ \E i \in 1..MaxInFlight : read(i)
    \/ processEvents
    \/ commit

BatchSpec == Init /\ [][BatchNext]_vars

\* C12: when a fold of a catch-up batch throws, the aggregate store and the coverage,
\* in memory and persisted, are as before the batch, also for the events of the batch
\* folded before the one that threw.
C12_BatchFailureAtomic ==
    [][out'.op = "batchFoldFailed" =>
          UNCHANGED <<total, processedRanges, savedRanges, folded>>]_vars

C12_Witness ==
    /\ out.op = "batchFoldFailed"
    /\ Stored = {1, 2}
    /\ out.id = 1
    /\ MemCovered = {}
    /\ SavedCovered = {}
    /\ total = [k \in Keys |-> 0]

\* Both delivery paths with change listeners that are registered before the engine
\* is initialized and stay registered.
NotifyNext ==
    \/ Initialize
    \/ \E l \in Listeners : ~initTried /\ subscribe(l)
    \/ startProcessing
    \/ \E key \in {"a"} : nextId <= MaxEvents /\ add(key)
    \/ handleNewEvent
    \/ tick
    \/ \E i \in 1..MaxInFlight : read(i)
    \/ processEvents
    \/ commit

NotifySpec == Init /\ [][NotifyNext]_vars

\* C13: when a catch-up batch commits, every registered listener has been called exactly
\* once for each non-null fold result of the batch, in order.
C13_BatchNotified ==
    [][out'.op = "batchCommitted" =>
          \A l \in listeners : Head(txq).calls[l] \o out'.calls[l] = Head(txq).changed]_vars

\* Both delivery paths over a log that retention compaction shortens; folds and
\* storage never fail; every enabled engine step is eventually taken.
CompactNext ==
    \/ Initialize /\ initSucceeded'
    \/ startProcessing
    \/ \E key \in {"a"} : nextId <= MaxEvents /\ add(key)
    \/ \E keepLatest \in 0..1 : Cardinality(DOMAIN log) > keepLatest /\ compact(keepLatest)
    \/ handleNewEvent /\ NoFailure
    \/ tick
    \/ \E i \in 1..MaxInFlight : read(i)
    \/ processEvents /\ NoFailure
    \/ commit /\ NoFailure

CompactSpec ==
    /\ Init
    /\ [][CompactNext]_vars
    /\ WF_vars(Initialize /\ initSucceeded')
    /\ WF_vars(startProcessing)
    /\ WF_vars(handleNewEvent /\ NoFailure)
    /\ WF_vars(tick)
    /\ WF_vars(read(1))
    /\ WF_vars(processEvents /\ NoFailure)
    /\ WF_vars(commit /\ NoFailure)

\* The step is the try block of processEvents for the batch at the head of txq.
BatchStep ==
    /\ txq # <<>>
    /\ Head(txq).kind = "batch"
    /\ Head(txq).pc = "fold"
    /\ (Len(txq') < Len(txq) \/ Head(txq') # Head(txq))

BatchIds == {Head(txq).evs[j].localId : j \in 1..Len(Head(txq).evs)}

\* C14: a tick that reads no event changes no coverage and starts no fold; a batch of
\* fewer events than the batch size adds exactly the ids 1..maxId to coverage, a batch of
\* batch-size events exactly the ids minId..maxId.
C14_BatchInsert ==
    [][/\ out'.op = "tickNoEvents" =>
            UNCHANGED <<processedRanges, savedRanges, total, folded, txq>>
       /\ (BatchStep /\ out'.op # "batchFoldFailed") =>
            MemCovered' = MemCovered \cup
                (IF Cardinality(BatchIds) < BatchSize
                 THEN 1..SetMax(BatchIds)
                 ELSE (CHOOSE m \in BatchIds : \A x \in BatchIds : m <= x)..SetMax(BatchIds))]_vars

C14_Witness ==
    /\ txq # <<>>
    /\ Head(txq).kind = "batch"
    /\ Head(txq).pc = "commit"
    /\ Len(Head(txq).evs) = BatchSize
    /\ MemCovered = BatchSize..(2 * BatchSize - 1)

\* Every event of the log is folded and coverage runs from the first id to the newest.
AllFolded ==
    /\ Stored # {}
    /\ MemCovered = 1..SetMax(Stored)
    /\ \A i \in Stored : folded[i] >= 1
    /\ txq = <<>>
    /\ reads = <<>>

\* C15: once every event is folded and coverage is contiguous from the origin to the
\* newest event, a later tick stops the timer.
C15_TimerStopsWhenCovered == (AllFolded /\ timer) ~> (~timer \/ ~AllFolded)

\* An id below covered ids whose event compaction deleted before anything covered it.
DeletedUncovered(i) ==
    /\ i < nextId
    /\ i \notin Stored
    /\ i \notin MemCovered
    /\ \E j \in MemCovered : i < j

\* C16: the gap left in coverage by events that compaction deleted is eventually
\* closed under fair ticks.
C16_DeletedGapCloses ==
    \A i \in Ids : (initSucceeded /\ timer /\ DeletedUncovered(i)) ~> (i \in MemCovered)

\* The lifecycle of the log and of the engine from their construction on.
LogInit ==
    /\ log = <<>>
    /\ nextId = 1
    /\ savedRanges = <<>>
    /\ total = [k \in Keys |-> 0]
    /\ db = FALSE
    /\ initTried = FALSE
    /\ initSucceeded = FALSE
    /\ initError = FALSE
    /\ initCalls = 0
    /\ processedRanges = <<>>
    /\ timer = FALSE
    /\ intervals = 0
    /\ listeners = {}
    /\ storeSubs = 0
    /\ reads = <<>>
    /\ txq = <<>>
    /\ restarts = 0
    /\ folded = [i \in Ids |-> 0]
    /\ out = NoOut
    /\ inserted = {}
    /\ found = NoRange
    /\ storeDb = FALSE
    /\ storeInitTried = FALSE
    /\ storeInitSucceeded = FALSE
    /\ storeInitError = FALSE
    /\ disposed = FALSE
    /\ retired = {}
    /\ storeDisposed = FALSE
    /\ subsSince = 0
    /\ pending = <<>>
    /\ appended = 0
    /\ storeListeners = <<>>
    /\ unsubscribed = {}
    /\ likeLog = <<>>
    /\ likeStore = [k \in Keys |-> <<>>]
    /\ likeHistory = <<>>

LifeNext ==
    \/ StoreInitialize
    \/ \E who \in {"store", "engine"} : InitializeAgain(who)
    \/ Initialize
    \/ Dispose
    \/ startProcessing
    \/ \E l \in {"l1"} : subscribe(l)
    \/ \E itemIds \in {{"a"}} : getAggregated(itemIds)
    \/ \E key \in {"a"} : nextId <= MaxEvents /\ add(key)
    \/ handleNewEvent
    \/ tick
    \/ \E i \in 1..MaxInFlight : read(i)
    \/ processEvents
    \/ commit

LifeSpec == LogInit /\ [][LifeNext]_vars

\* One engine over an open log, with change listeners, until and after either of the
\* two is disposed.
DisposeNext ==
    \/ Initialize
    \/ Dispose
    \/ StoreDispose
    \/ subscribe("l1")
    \/ startProcessing
    \/ \E key \in {"a"} : nextId <= DisposeEvents /\ add(key)
    \/ handleNewEvent
    \/ tick
    \/ \E i \in 1..MaxInFlight : read(i)
    \/ processEvents
    \/ commit

DisposeSpec == Init /\ [][DisposeNext]_vars

\* C17: no listener that was registered on the engine when it was disposed is called by
\* a later step, and the log holds no subscriber from before its own dispose.
C17_NoCallAfterDispose ==
    /\ \A l \in retired : out.calls[l] = <<>>
    /\ storeDisposed => storeSubs <= subsSince

C17_Witness ==
    /\ disposed
    /\ retired = {"l1"}
    /\ out.op \in {"liveNotified", "batchFoldFailed"}
    /\ storeDisposed
    /\ storeSubs = 0

\* C18: an engine without a database (before initialize(), after dispose()) lets no
\* operation take effect: the timer is not started, no listener is registered, no live
\* event is handled and getAggregated is rejected.
C18_FailFastWithoutDb ==
    [][(~db /\ ~db') =>
          /\ timer' => timer
          /\ listeners' \subseteq listeners
          /\ Len(txq') <= Len(txq)
          /\ out'.op = "getAggregated" => out'.rejected]_vars

\* C19: once dispose() has been called no step gives the engine a database handle or
\* subscribes it to the log.
C19_DisposedIsTerminal ==
    [][disposed => (~db' /\ storeSubs' <= storeSubs)]_vars

\* C20: once initialize() has completed, of the log as of the engine,
\* isInitializationSucceeded() is true exactly when no error was captured, and a repeated
\* initialize() neither raises nor changes a flag.
C20_InitFlags ==
    /\ initTried => (initSucceeded <=> ~initError)
    /\ storeInitTried => (storeInitSucceeded <=> ~storeInitError)
    /\ out.op \in {"initializeAgain", "storeInitializeAgain"} => ~out.rejected

\* ------------------------------------------------ the append transaction
\* Faulty variant: no unique index.
collidesNever(store, globalId) == FALSE

\* The unique index on globalId: a record with this globalId is in the store.
collides(store, globalId) == \E i \in DOMAIN store : store[i].globalId = globalId

\* Faulty variant: the key generator keeps its increase when the transaction aborts.
nextKeyNoRevert(current, completed) == current + 1

\* The autoIncrement key generator after a transaction that used it: increased by one,
\* and back at its old number when the transaction was aborted.
nextKey(current, completed) == IF completed THEN current + 1 ELSE current

Count(seq, l) == Cardinality({n \in 1..Len(seq) : seq[n] = l})

\* Faulty variant: the listeners are a list.
listAdd(subscribers, l) == Append(subscribers, l)

\* this.listeners.add(listener) on a Set: a listener already in it is not added again.
setAdd(subscribers, l) == IF Count(subscribers, l) > 0 THEN subscribers ELSE Append(subscribers, l)

\* this.listeners.delete(listener)
RECURSIVE setDelete(_, _)
setDelete(subscribers, l) ==
    IF subscribers = <<>> THEN <<>>
    ELSE IF Head(subscribers) = l THEN setDelete(Tail(subscribers), l)
    ELSE <<Head(subscribers)>> \o setDelete(Tail(subscribers), l)

StoreOut(op, id, globalId, delivered, handlers, rejected) ==
    [op |-> op, id |-> id, logged |-> {}, calls |-> NoCalls, rejected |-> rejected,
     globalId |-> globalId, delivered |-> delivered, handlers |-> handlers]

\* EventStore.subscribe(listener) and the unsubscribe closure it returns; neither
\* has a failing path.
storeSubscribe(l) ==
    /\ storeListeners' = setAdd(storeListeners, l)
    /\ unsubscribed' = unsubscribed \ {l}
    /\ out' = StoreOut("storeSubscribe", 0, 0, <<>>, 0, FALSE)
    /\ UNCHANGED <<storeVars, dbVars, db, initVars, processedRanges, timer, intervals, listeners,
                   storeSubs, reads, txq, algebraVars, storeLifeVars, disposeVars,
                   pending, appended,
                   likeVars>>

storeUnsubscribe(l) ==
    /\ Count(storeListeners, l) > 0 \/ l \in unsubscribed
    /\ storeListeners' = setDelete(storeListeners, l)
    /\ unsubscribed' = unsubscribed \cup {l}
    /\ out' = StoreOut("storeUnsubscribe", 0, 0, <<>>, 0, FALSE)
    /\ UNCHANGED <<storeVars, dbVars, db, initVars, processedRanges, timer, intervals, listeners,
                   storeSubs, reads, txq, algebraVars, storeLifeVars, disposeVars,
                   pending, appended,
                   likeVars>>

\* EventStore.add(value) up to the answer of store.add, with the globalId that uuidv7()
\* returned.  On a collision the request fails, the promise is rejected and the
\* transaction aborts.  Otherwise request.onsuccess calls every listener with the
\* stored event and resolves the promise; the transaction is still open.
addRequest(key, globalId) ==
    /\ storeDb
    /\ pending = <<>>
    /\ IF collides(log, globalId)
       THEN /\ nextId' = nextKey(nextId, FALSE)
            /\ out' = StoreOut("addRejected", nextId, globalId, <<>>, 0, TRUE)
            /\ UNCHANGED <<pending, txq>>
       ELSE /\ (storeSubs > 0 /\ db) => InFlight + storeSubs <= MaxInFlight
            /\ pending' = <<[localId |-> nextId, record |-> Record(globalId, key),
                             delivered |-> storeListeners, handlers |-> storeSubs]>>
            /\ txq' = IF db
                      THEN txq \o [i \in 1..storeSubs |->
                                    NewOp("live", <<[localId |-> nextId, key |-> key]>>)]
                      ELSE txq
            /\ out' = StoreOut("addBroadcast", nextId, globalId, storeListeners,
                               storeSubs, FALSE)
            /\ UNCHANGED nextId
    /\ UNCHANGED <<log, dbVars, db, initVars, processedRanges, timer, intervals, listeners,
                   storeSubs, reads, algebraVars, storeLifeVars, disposeVars,
                   appended, storeListeners, unsubscribed,
                   likeVars>>

\* The transaction of add() completes, or aborts after its request had succeeded.
addComplete ==
    /\ pending # <<>>
    /\ LET p == pending[1] IN
       \E completed \in BOOLEAN :
         /\ log' = IF completed THEN storeAdd(log, p.localId, p.record) ELSE log
         /\ nextId' = nextKey(nextId, completed)
         /\ appended' = IF completed THEN appended + 1 ELSE appended
         /\ out' = StoreOut(IF completed THEN "addCompleted" ELSE "addAborted",
                            p.localId, p.record.globalId, p.delivered, p.handlers, FALSE)
    /\ pending' = <<>>
    /\ UNCHANGED <<dbVars, db, initVars, processedRanges, timer, intervals, listeners, storeSubs,
                   reads, txq, algebraVars, storeLifeVars, disposeVars,
                   storeListeners, unsubscribed,
                   likeVars>>

\* ------------------------------------------------------- claims C21..C30
\* initialize() up to the answer of indexedDB.open: onupgradeneeded has run the
\* migrations and onsuccess has assigned this.db; loadProcessedRanges is still awaited.
InitializeOpen ==
    /\ ~initTried
    /\ ~db
    /\ \E result \in {"ok", "openFailed"} :
         /\ db' = (result = "ok")
         /\ initTried' = (result # "ok")
         /\ initError' = (result # "ok")
    /\ out' = NoOut
    /\ UNCHANGED <<initCalls, storeVars, dbVars, initSucceeded, processedRanges, timer, intervals, listeners,
                   storeSubs, reads, txq, algebraVars, storeLifeVars, disposeVars, appendVars,
                   likeVars>>

\* initialize() from the answer of loadProcessedRanges on: the persisted list replaces
\* the one in memory, handleNewEvent is subscribed and the flags are set.
InitializeLoad ==
    /\ ~initTried
    /\ db
    /\ initTried' = TRUE
    /\ \E result \in {"ok", "loadFailed"} :
         /\ initSucceeded' = (result = "ok")
         /\ initError' = (result # "ok")
         /\ processedRanges' = IF result = "ok" THEN savedRanges ELSE processedRanges
         /\ storeSubs' = IF result = "ok" THEN storeSubs + 1 ELSE storeSubs
    /\ out' = NoOut
    /\ UNCHANGED <<initCalls, storeVars, dbVars, db, timer, intervals, listeners, reads, txq, algebraVars,
                   storeLifeVars, disposeVars, appendVars,
                   likeVars>>

\* An engine whose initialize() takes time, with the timer and the log in use meanwhile.
StartupNext ==
    \/ InitializeOpen
    \/ InitializeLoad
    \/ startProcessing
    \/ \E key \in {"a"} : nextId <= BatchEvents /\ add(key)
    \/ handleNewEvent
    \/ tick
    \/ \E i \in 1..MaxInFlight : read(i)
    \/ processEvents
    \/ commit

StartupSpec == Init /\ [][StartupNext]_vars

\* The step runs processEvent in the transaction at the head of txq.
FoldStep ==
    /\ txq # <<>>
    /\ Head(txq).pc = "fold"
    /\ (Len(txq') < Len(txq) \/ Head(txq') # Head(txq))

\* C21: no fold runs before initialize() has completed successfully, whenever
\* startProcessing() was called and whenever the events were appended.
C21_NoFoldBeforeInitialized == [][FoldStep => initSucceeded]_vars

\* The log on its own: appends whose globalId may repeat and whose transaction may
\* abort, compaction, and listeners that come and go.
LogNext ==
    \/ \E l \in Listeners : storeSubscribe(l)
    \/ \E l \in Listeners : storeUnsubscribe(l)
    \/ \E key \in {"a"}, globalId \in 1..MaxGlobalId :
          nextId <= LogEvents /\ addRequest(key, globalId)
    \/ addComplete
    \/ \E keepLatest \in 0..MaxKeep : compact(keepLatest)

LogSpec == Init /\ [][LogNext]_vars

\* The log with an engine on its live path and one more listener; no append is
\* started under a localId that has a committed fold already.
AppendNext ==
    \/ Initialize
    \/ storeSubscribe("l1")
    \/ \E key \in {"a"}, globalId \in 1..MaxGlobalId :
          nextId <= LogEvents /\ folded[nextId] = 0 /\ addRequest(key, globalId)
    \/ addComplete
    \/ handleNewEvent
    \/ commit

AppendSpec == Init /\ [][AppendNext]_vars

\* C22: the k-th append that completes is stored under localId k, and the localId,
\* globalId and payload of a stored record never change; records leave the log only
\* by compaction.
C22_LocalIdsInOrder ==
    [][/\ \A i \in DOMAIN log \cap DOMAIN log' : log'[i] = log[i]
       /\ appended' = appended + 1 => DOMAIN log' = DOMAIN log \cup {appended'}
       /\ appended' = appended => DOMAIN log' \subseteq DOMAIN log]_vars

C22_Witness ==
    /\ out.op = "addCompleted"
    /\ appended = LogEvents
    /\ DOMAIN log = {LogEvents}

\* C23: an append whose globalId is held by a stored record is rejected: the log, the
\* key generator, the engine's transactions and coverage are unchanged, and neither a
\* listener nor handleNewEvent is called.
C23_CollisionRejected ==
    [][(/\ out'.op \in {"addRejected", "addBroadcast"}
        /\ \E i \in DOMAIN log : log[i].globalId = out'.globalId)
          => /\ out'.rejected
             /\ out'.delivered = <<>>
             /\ out'.handlers = 0
             /\ UNCHANGED <<log, nextId, pending, txq, processedRanges, savedRanges>>]_vars

C23_Witness ==
    /\ out.op = "addRejected"
    /\ storeListeners # <<>>
    /\ storeSubs > 0
    /\ db
    /\ log # <<>>

\* C24: no listener of the log and no handleNewEvent has been called for an append
\* whose transaction aborts.
C24_BroadcastAfterCommit ==
    [][out'.op = "addAborted" => (out'.delivered = <<>> /\ out'.handlers = 0)]_vars

\* C27: an append calls each listener that is subscribed exactly once, however often it
\* was subscribed, and none whose unsubscribe closure was called since; subscribe and
\* unsubscribe do not raise.
C27_SubscribersOncePerAppend ==
    [][/\ out'.op = "addBroadcast" =>
            \A l \in Listeners :
                /\ Count(storeListeners, l) > 0 => Count(out'.delivered, l) = 1
                /\ l \in unsubscribed => Count(out'.delivered, l) = 0
       /\ out'.op \in {"storeSubscribe", "storeUnsubscribe"} => ~out'.rejected]_vars

C27_Witness ==
    /\ out.op = "addBroadcast"
    /\ out.delivered = <<"l2">>
    /\ unsubscribed = {"l1"}

\* getEventsAfter(localId, options) and getEventsBefore(localId, options), each in a
\* read-only transaction on the Events store; options without a limit reach getEvents
\* as the falsy limit 0 does.
query(direction, localId, supplied, limit) ==
    /\ storeDb
    /\ pending = <<>>
    /\ LET effective == IF supplied THEN limit ELSE 0 IN
       out' = [op |-> direction, id |-> localId, logged |-> {}, calls |-> NoCalls,
               rejected |-> FALSE, supplied |-> supplied, limit |-> limit,
               result |-> IF direction = "getEventsAfter"
                          THEN getEventsAfter(log, localId, effective)
                          ELSE getEventsBefore(log, localId, effective)]
    /\ UNCHANGED <<storeVars, dbVars, db, initVars, processedRanges, timer, intervals, listeners,
                   storeSubs, reads, txq, algebraVars, storeLifeVars, disposeVars,
                   appendVars,
                   likeVars>>

\* The queries of the log over logs that appends and compaction leave.
QueryNext ==
    \/ \E key \in Keys : nextId <= MaxEvents /\ add(key)
    \/ \E keepLatest \in 0..MaxKeep : compact(keepLatest)
    \/ \E direction \in {"getEventsAfter", "getEventsBefore"}, localId \in 0..MaxEvents + 1,
          supplied \in BOOLEAN, limit \in 0..MaxLimit :
          (supplied \/ limit = 0) /\ query(direction, localId, supplied, limit)

QuerySpec == Init /\ [][QueryNext]_vars

\* What a query answered with is about.
IsQuery == out.op \in {"getEventsAfter", "getEventsBefore"}
Matches ==
    IF out.op = "getEventsAfter" THEN {i \in Stored : i > out.id}
    ELSE {i \in Stored : i < out.id}
ResultIds == {out.result[n].localId : n \in 1..Len(out.result)}

\* The result is the first k matching events in the direction's strict id order.
FirstInOrder(k) ==
    /\ Len(out.result) = k
    /\ ResultIds \subseteq Matches
    /\ \A n \in 1..Len(out.result) :
          out.result[n] = [localId |-> out.result[n].localId,
                           key |-> log[out.result[n].localId].key]
    /\ \A n \in 1..Len(out.result) - 1 :
          IF out.op = "getEventsAfter"
          THEN out.result[n].localId < out.result[n + 1].localId
          ELSE out.result[n].localId > out.result[n + 1].localId
    /\ \A m \in Matches \ ResultIds : \A i \in ResultIds :
          IF out.op = "getEventsAfter" THEN i < m ELSE i > m

\* C25 (as claimed): getEventsAfter answers with the stored events above the id in
\* ascending order, getEventsBefore with those below it in descending order, and with
\* the first min(L, matches) of them when a limit L is supplied.
C25_QueryLimited ==
    IsQuery =>
        FirstInOrder(IF out.supplied THEN Min(out.limit, Cardinality(Matches))
                     ELSE Cardinality(Matches))

\* C25 (amended): as above for a supplied limit L >= 1; a supplied limit of 0 is taken
\* as no limit, and the answer holds every matching event.
C25_QueryLimitedPositive ==
    IsQuery =>
        FirstInOrder(IF out.supplied /\ out.limit >= 1
                     THEN Min(out.limit, Cardinality(Matches))
                     ELSE Cardinality(Matches))

C25_Witness ==
    /\ out.op = "getEventsBefore"
    /\ out.supplied
    /\ out.limit = 2
    /\ Cardinality(Matches) = 3
    /\ ResultIds = {2, 3}

\* The log under compaction with an engine on its live path; folds and storage do
\* not fail.
CleanupNext ==
    \/ Initialize /\ initSucceeded'
    \/ \E key \in {"a"} : nextId <= MaxEvents /\ add(key)
    \/ \E keepLatest \in 0..MaxKeep : compact(keepLatest)
    \/ handleNewEvent /\ NoFailure
    \/ commit /\ NoFailure

CleanupSpec == Init /\ [][CleanupNext]_vars

\* C26: cleanupOldData(keepLatest) leaves the keepLatest records of greatest localId as
\* they were (every record when there are no more than keepLatest), deletes the others,
\* and changes neither coverage, in memory or persisted, nor the aggregate store.
C26_CleanupKeepsLatest ==
    [][out'.op = "cleanupOldData" =>
          /\ Stored' \subseteq Stored
          /\ Cardinality(Stored') = Min(out'.id, Cardinality(Stored))
          /\ \A i \in Stored', j \in Stored \ Stored' : j < i
          /\ \A i \in Stored' : log'[i] = log[i]
          /\ UNCHANGED <<processedRanges, savedRanges, total, nextId>>]_vars

C26_Witness ==
    /\ out.op = "cleanupOldData"
    /\ out.id = MaxKeep
    /\ Cardinality(Stored) = MaxKeep
    /\ nextId > MaxKeep + 2
    /\ MemCovered # {}
    /\ \E i \in 1..nextId - 1 : i \notin Stored /\ i \notin MemCovered

\* C28: a live fold never ends in the catch because of a listener, and when a
\* listener throws during the notification, every registered listener has still been
\* called with the record, and the fold and the coverage update go on to commit as
\* without the exception.
C28_ListenerErrorContained ==
    [][(FoldStep /\ Head(txq).kind = "live")
          => /\ out'.op \in {"liveNotified", "liveFoldFailed", "liveSaveFailed"}
             /\ "Error in listener:" \in out'.logged
                   => /\ out'.op = "liveNotified"
                      /\ ~out'.rejected
                      /\ \A l \in listeners : out'.calls[l] = Head(txq').changed
                      /\ Head(txq').changed =
                            <<Item(Head(txq).evs[1].key, total[Head(txq).evs[1].key] + 1)>>
                      /\ Head(txq').pc = "commit"
                      /\ Head(txq').evs = Head(txq).evs
                      /\ Head(txq).evs[1].localId \in Covered(Head(txq').wRanges)
                      /\ Head(txq).evs[1].localId \in MemCovered'
                      /\ Head(txq').wTotal =
                            [total EXCEPT ![Head(txq).evs[1].key] = @ + 1]]_vars

C28_Witness ==
    /\ out.op = "liveNotified"
    /\ "Error in listener:" \in out.logged
    /\ listeners = Listeners
    /\ \A l \in Listeners : out.calls[l] # <<>>
    /\ txq # <<>>
    /\ Head(txq).pc = "commit"

\* Reads of the aggregate store of an initialized engine between live folds.
AggNext ==
    \/ Initialize
    \/ \E key \in Keys : nextId <= AggEvents /\ add(key)
    \/ handleNewEvent
    \/ commit
    \/ \E itemIds \in SUBSET Keys : db /\ getAggregated(itemIds)

AggSpec == Init /\ [][AggNext]_vars

\* C29: getAggregated(keys) on an initialized engine returns a map whose keys are
\* exactly the requested ones; a key with a stored record maps to that record, any
\* other key to the record of total 0; no keys give the empty map.
C29_GetAggregatedKeys ==
    [][(out'.op = "getAggregated" /\ db)
          => /\ ~out'.rejected
             /\ DOMAIN out'.result = out'.itemIds
             /\ \A k \in out'.itemIds :
                   /\ out'.result[k].aggregationKey = k
                   /\ out'.result[k].total = total[k]
             /\ out'.itemIds = {} => out'.result = <<>>
             /\ UNCHANGED <<total, processedRanges, savedRanges, txq>>]_vars

C29_Witness ==
    /\ out.op = "getAggregated"
    /\ initSucceeded
    /\ out.itemIds = Keys
    /\ \E k \in Keys : total[k] > 0 /\ out.result[k].total = total[k]
    /\ \E k \in Keys : total[k] = 0 /\ out.result[k] = Item(k, 0)

\* The step folds with the count fold: processEvent returns a record for every event
\* of the transaction.
CountFoldStep ==
    /\ txq' # <<>>
    /\ Head(txq').pc = "commit"
    /\ Len(Head(txq').changed) = Len(Head(txq).evs)

\* The count fold over events appended to an initialized, subscribed engine whose
\* catch-up timer may run; folds and storage do not fail, and the totals are read
\* when no transaction and no read is in flight.
CountNext ==
    \/ Initialize /\ initSucceeded'
    \/ startProcessing
    \/ \E key \in Keys : nextId <= AggEvents /\ initSucceeded /\ add(key)
    \/ handleNewEvent /\ NoFailure /\ CountFoldStep
    \/ tick
    \/ \E i \in 1..MaxInFlight : read(i)
    \/ processEvents /\ NoFailure /\ CountFoldStep
    \/ commit /\ NoFailure
    \/ txq = <<>> /\ reads = <<>> /\ db /\ getAggregated(Keys)

CountSpec == Init /\ [][CountNext]_vars

\* The same without the catch-up timer.
CountLiveNext ==
    \/ Initialize /\ initSucceeded'
    \/ \E key \in Keys : nextId <= AggEvents /\ initSucceeded /\ add(key)
    \/ handleNewEvent /\ NoFailure /\ CountFoldStep
    \/ commit /\ NoFailure
    \/ txq = <<>> /\ reads = <<>> /\ db /\ getAggregated(Keys)

CountLiveSpec == Init /\ [][CountLiveNext]_vars

\* C30: with the count fold, for events appended while the engine is subscribed and
\* without a failing fold, the total reported for each key is the number of appended
\* events carrying that key, 0 for a key no event carries.
C30_TotalsCountEvents ==
    (out.op = "getAggregated" /\ ~out.rejected)
       => \A k \in Keys :
             out.result[k].total = Cardinality({i \in DOMAIN log : log[i].key = k})

\* ------------------------------------------------------- the like fold
\* extractTimestampFromUUIDv7: the 48 leading bits of the globalId, its millisecond.
extractTimestampFromUUIDv7(globalId) == globalId.ms

\* Faulty variant: the fold writes the event's flag whatever the stored timestamp is.
likeProcessEventLastWrite(store, event) ==
    [store EXCEPT ![event.key] =
        <<[aggregationKey |-> event.key, isLiked |-> event.isLiked,
           lastUpdated |-> extractTimestampFromUUIDv7(event.globalId)]>>]

\* LikeEventAggregator.processEvent on the Like store: the record is replaced when
\* there is none or when the event's timestamp is greater than the stored one;
\* otherwise nothing is written (the fold resolves null).
likeProcessEvent(store, event) ==
    LET currentValue == store[event.key]
        eventUpdated == extractTimestampFromUUIDv7(event.globalId)
    IN IF currentValue = <<>> \/ eventUpdated > currentValue[1].lastUpdated
       THEN [store EXCEPT ![event.key] =
                <<[aggregationKey |-> event.key, isLiked |-> event.isLiked,
                   lastUpdated |-> eventUpdated]>>]
       ELSE store

LastMs == IF likeLog = <<>> THEN 1 ELSE likeLog[Len(likeLog)].globalId.ms

\* LikeEventStore.add({itemId, isLiked}): the globalId carries the current millisecond,
\* which does not go back, and is unique by its random part.
likeAdd(key, isLiked, ms) ==
    /\ Len(likeLog) < LikeEvents
    /\ ms >= LastMs
    /\ likeLog' = Append(likeLog, [key |-> key, isLiked |-> isLiked,
                                   globalId |-> [ms |-> ms, rand |-> Len(likeLog) + 1]])
    /\ out' = NoOut
    /\ UNCHANGED <<storeVars, dbVars, db, initVars, processedRanges, timer, intervals, listeners,
                   storeSubs, reads, txq, algebraVars, storeLifeVars, disposeVars,
                   appendVars, likeStore, likeHistory>>

\* One committed run of the like fold for the stored event of localId i, from the live
\* path or from a catch-up batch.
likeFold(i) ==
    /\ i \in 1..Len(likeLog)
    /\ Len(likeHistory) < MaxFolds
    /\ likeStore' = likeProcessEvent(likeStore, likeLog[i])
    /\ likeHistory' = Append(likeHistory, i)
    /\ out' = NoOut
    /\ UNCHANGED <<storeVars, dbVars, db, initVars, processedRanges, timer, intervals, listeners,
                   storeSubs, reads, txq, algebraVars, storeLifeVars, disposeVars,
                   appendVars, likeLog>>

LikeNext ==
    \/ \E key \in Keys, isLiked \in BOOLEAN, ms \in 1..MaxTimestamp : likeAdd(key, isLiked, ms)
    \/ \E i \in 1..LikeEvents : likeFold(i)

LikeSpec == Init /\ [][LikeNext]_vars

\* ---------------------------------------------------------- claims C31..C40
LikeIds(k) == {i \in 1..Len(likeLog) : likeLog[i].key = k}
LikeFoldedIds == {likeHistory[j] : j \in 1..Len(likeHistory)}
TimestampsIncrease ==
    \A i, j \in 1..Len(likeLog) : i < j => likeLog[i].globalId.ms < likeLog[j].globalId.ms

RECURSIVE LikeFoldInOrder(_, _)
LikeFoldInOrder(store, i) ==
    IF i > Len(likeLog) THEN store
    ELSE LikeFoldInOrder(
            LET e == likeLog[i] IN
            IF store[e.key] = <<>> \/ e.globalId.ms > store[e.key][1].lastUpdated
            THEN [store EXCEPT ![e.key] = <<[aggregationKey |-> e.key, isLiked |-> e.isLiked,
                                             lastUpdated |-> e.globalId.ms]>>]
            ELSE store,
            i + 1)

\* C31: with timestamps that strictly increase with localId, once every event has
\* been folded at least once, in whatever order and however often, the Like store
\* holds for every key the flag and the timestamp of the event of greatest localId
\* with that key, which is what one fold in localId order gives.
C31_LikeFoldOrderFree ==
    (TimestampsIncrease /\ LikeFoldedIds = 1..Len(likeLog))
       => /\ \A k \in Keys :
                IF LikeIds(k) = {}
                THEN likeStore[k] = <<>>
                ELSE likeStore[k] =
                        <<[aggregationKey |-> k,
                           isLiked |-> likeLog[SetMax(LikeIds(k))].isLiked,
                           lastUpdated |-> likeLog[SetMax(LikeIds(k))].globalId.ms]>>
          /\ likeStore = LikeFoldInOrder([k \in Keys |-> <<>>], 1)

C31_Witness ==
    /\ TimestampsIncrease
    /\ Len(likeLog) = LikeEvents
    /\ LikeFoldedIds = 1..Len(likeLog)
    /\ Len(likeHistory) > Len(likeLog)
    /\ \E j \in 1..Len(likeHistory) - 1 :
          /\ likeHistory[j] > likeHistory[j + 1]
          /\ likeLog[likeHistory[j]].key = likeLog[likeHistory[j + 1]].key
          /\ likeLog[likeHistory[j]].isLiked # likeLog[likeHistory[j + 1]].isLiked

\* C34: with the like fold and events folded by the live path, one after the other in
\* the order of their appends, the status of a key is the flag of its most recently
\* appended event, also when events of the key carry the same millisecond.
C34_LatestAppendWins ==
    (likeHistory = [i \in 1..Len(likeLog) |-> i])
       => \A k \in Keys :
             LikeIds(k) # {} =>
                /\ likeStore[k] # <<>>
                /\ likeStore[k][1].isLiked = likeLog[SetMax(LikeIds(k))].isLiked

\* A backlog drained by the catch-up path alone: MaxEvents events are in the log before
\* the engine is initialized with empty coverage, nothing is appended afterwards, and
\* neither folds nor storage fail.  A tick may fire while an earlier batch is in flight.
DrainNext ==
    \/ \E key \in Keys : ~initTried /\ nextId <= MaxEvents /\ add(key)
    \/ nextId > MaxEvents /\ Initialize /\ initSucceeded'
    \/ startProcessing
    \/ tick
    \/ \E i \in 1..MaxInFlight : read(i)
    \/ processEvents /\ NoFailure
    \/ commit /\ NoFailure

DrainSpec == Init /\ [][DrainNext]_vars

\* The same with every tick waiting for the batch of the tick before it.
DrainInTurnNext ==
    \/ \E key \in Keys : ~initTried /\ nextId <= MaxEvents /\ add(key)
    \/ nextId > MaxEvents /\ Initialize /\ initSucceeded'
    \/ startProcessing
    \/ InFlight = 0 /\ tick
    \/ \E i \in 1..MaxInFlight : read(i)
    \/ processEvents /\ NoFailure
    \/ commit /\ NoFailure

DrainInTurnSpec == Init /\ [][DrainInTurnNext]_vars

Drained ==
    /\ initSucceeded
    /\ txq = <<>>
    /\ reads = <<>>
    /\ findRangeToProcess(processedRanges).kind = "null"

\* C32: from empty coverage and a backlog of N events, more than a batch, with no
\* appends and no failures, the ticks fold every event exactly once and end with
\* the coverage [1, N].
C32_BacklogDrainedOnce ==
    Drained => /\ \A i \in Stored : folded[i] = 1
               /\ processedRanges = <<[start |-> 1, end |-> MaxEvents]>>
               /\ savedRanges = processedRanges

\* startProcessing() while an id is held, and stopProcessing() while none is.
startProcessingAgain ==
    /\ timer
    /\ intervals' = startedIntervals(timer, intervals)
    /\ out' = Out("startProcessing", 0, {}, NoCalls, FALSE)
    /\ UNCHANGED <<storeVars, dbVars, db, initVars, processedRanges, timer, listeners,
                   storeSubs, reads, txq, algebraVars, storeLifeVars,
                   disposeVars, appendVars, likeVars>>

stopProcessingAgain ==
    /\ ~timer
    /\ intervals' = stoppedIntervals(timer, intervals)
    /\ out' = Out("stopProcessing", 0, {}, NoCalls, FALSE)
    /\ UNCHANGED <<storeVars, dbVars, db, initVars, processedRanges, timer, listeners,
                   storeSubs, reads, txq, algebraVars, storeLifeVars,
                   disposeVars, appendVars, likeVars>>

\* The timer started and stopped at any moment, over both delivery paths.
TimerNext ==
    \/ Initialize /\ initSucceeded'
    \/ startProcessing
    \/ startProcessingAgain
    \/ stopProcessing
    \/ stopProcessingAgain
    \/ \E key \in {"a"} : nextId <= BatchEvents /\ add(key)
    \/ handleNewEvent
    \/ tick
    \/ \E i \in 1..MaxInFlight : read(i)
    \/ processEvents
    \/ commit

TimerSpec == Init /\ [][TimerNext]_vars

\* C33: startProcessing() with the timer active makes no second timer; between
\* stopProcessing() and the next startProcessing() no tick fires; and stopping
\* leaves the reads and transactions in flight as they are, to run to their commit
\* or abort (C33_Witness: a batch commits while the timer is stopped).
C33_OneTimerStoppable ==
    [][/\ intervals' = (IF timer' THEN 1 ELSE 0)
       /\ tick => timer
       /\ (timer /\ ~timer') => (reads' = reads /\ txq' = txq)]_vars

C33_Witness ==
    /\ ~timer
    /\ intervals = 0
    /\ out.op = "batchCommitted"
    /\ ~isFullyCovered(processedRanges)

\* isFullyCovered() called on what the updateProcessedRanges calls have left.
checkFullyCovered ==
    /\ found' = [kind |-> IF isFullyCovered(processedRanges) THEN "covered" ELSE "open",
                 start |-> 0, end |-> 0]
    /\ UNCHANGED <<storeVars, dbVars, db, initVars, processedRanges, timer, intervals,
                   listeners, storeSubs, reads, txq, restarts, out, inserted,
                   storeLifeVars, disposeVars, appendVars, likeVars>>

CoverageNext ==
    \/ \E start \in 0..MaxId, end \in 0..MaxId : start <= end /\ insert(start, end)
    \/ findGap
    \/ checkFullyCovered

CoverageSpec == Init /\ [][CoverageNext]_vars

\* C35: isFullyCovered() is true exactly when the coverage is one interval that
\* starts at 0: false for empty coverage, for one interval starting above 0, and for
\* two or more intervals.
C35_FullyCoveredIffFromZero ==
    found.kind \in {"covered", "open"}
       => (found.kind = "covered"
             <=> /\ MemCovered # {}
                 /\ MemCovered = 0..SetMax(MemCovered))

C35_Witness ==
    /\ found.kind = "covered"
    /\ Cardinality(MemCovered) > 2
    /\ Cardinality(inserted) > 2

\* C36: findRangeToProcess on one interval starting at 0 reports no gap and raises
\* nothing; on the empty list it reports the gap from 0 to the maximum id; on one
\* interval starting at s > 1 it reports the gap (0, s).
C36_GapOfSingleInterval ==
    [][findGap =>
          /\ processedRanges = <<>> => found' = Gap(0, MaxSafeInteger)
          /\ (Len(processedRanges) = 1 /\ processedRanges[1].start = 0)
                => found' = NoRange
          /\ (Len(processedRanges) = 1 /\ processedRanges[1].start > 1)
                => found' = Gap(0, processedRanges[1].start)]_vars

\* The same with "no gap" for the interval that starts at 1, as the code has it.
GapOfSingleIntervalFromOne ==
    [][findGap =>
          /\ processedRanges = <<>> => found' = Gap(0, MaxSafeInteger)
          /\ (Len(processedRanges) = 1 /\ processedRanges[1].start = 1)
                => found' = NoRange
          /\ (Len(processedRanges) = 1 /\ processedRanges[1].start > 1)
                => found' = Gap(0, processedRanges[1].start)]_vars

\* C37: whenever no live fold and no catch-up batch is in flight, the list of ranges
\* in memory equals the persisted record, also after an operation whose save or
\* commit failed after the insert in memory.
C37_MemoryEqualsPersisted ==
    (initSucceeded /\ txq = <<>> /\ reads = <<>>) => processedRanges = savedRanges

\* The step ends the transaction at the head of txq without its commit.
AbortStep ==
    /\ txq # <<>>
    /\ txq' = Tail(txq)
    /\ out'.op \in StorageFailures \cup FoldFailures

\* C38: no change listener is told of a fold result whose transaction did not commit:
\* not by a live fold whose transaction fails after the notification, not for the
\* events of a catch-up batch that aborts.
C38_NotifiedOnlyCommitted ==
    [][AbortStep =>
          /\ out'.calls = NoCalls
          /\ Head(txq).pc = "commit" => Head(txq).calls = NoCalls]_vars

\* C39: dispose() leaves no active catch-up timer, so that no tick runs
\* processEvents after it when the timer was running.
C39_DisposeStopsTimer == [][Dispose => (intervals' = 0 /\ ~timer')]_vars

\* initialize() up to its first await: the call passes the _initializationTried check,
\* which only the finally block of a finished call sets, and starts to open the database.
initializeEnter ==
    /\ ~initTried
    /\ initCalls < MaxInitCalls
    /\ initCalls' = initCalls + 1
    /\ out' = NoOut
    /\ UNCHANGED <<storeVars, dbVars, db, initTried, initSucceeded, initError,
                   processedRanges, timer, intervals, listeners, storeSubs, reads, txq,
                   algebraVars, storeLifeVars, disposeVars, appendVars, likeVars>>

\* The rest of one initialize() call: the open, the load of the ranges, the
\* subscription of a new bound handleNewEvent, and the flags of try, catch and finally.
initializeFinish ==
    /\ initCalls > 0
    /\ initCalls' = initCalls - 1
    /\ initTried' = TRUE
    /\ \E result \in {"ok", "openFailed", "loadFailed"} :
         /\ db' = (db \/ result # "openFailed")
         /\ initSucceeded' = (initSucceeded \/ result = "ok")
         /\ initError' = (initError \/ result # "ok")
         /\ processedRanges' = IF result = "ok" THEN savedRanges ELSE processedRanges
         /\ storeSubs' = IF result = "ok" THEN storeSubs + 1 ELSE storeSubs
         /\ subsSince' = IF result = "ok" /\ storeDisposed THEN subsSince + 1 ELSE subsSince
    /\ out' = NoOut
    /\ UNCHANGED <<storeVars, dbVars, timer, intervals, listeners, reads, txq, algebraVars,
                   storeLifeVars, disposed, retired, storeDisposed, appendVars,
                   likeVars>>

OverlapNext ==
    \/ initializeEnter
    \/ initializeFinish
    \/ InitializeAgain("engine")
    \/ \E key \in {"a"} : nextId <= BatchEvents /\ add(key)
    \/ handleNewEvent
    \/ commit

OverlapSpec == Init /\ [][OverlapNext]_vars

\* The same engine when every initialize() call is awaited before the next one is made.
InTurnNext ==
    \/ initCalls = 0 /\ initializeEnter
    \/ initializeFinish
    \/ InitializeAgain("engine")
    \/ \E key \in {"a"} : nextId <= BatchEvents /\ add(key)
    \/ handleNewEvent
    \/ commit

InTurnSpec == Init /\ [][InTurnNext]_vars

\* C40: however many initialize() calls are made, overlapping ones included, the
\* engine holds exactly one subscription to the store once it is initialized, and
\* each append to the store starts exactly one live fold.
C40_SubscribedOnce ==
    [][/\ initSucceeded' => storeSubs' = 1
       /\ (initSucceeded /\ db /\ nextId' = nextId + 1) => Len(txq') = Len(txq) + 1]_vars

====
